---- MODULE Spec2Model ----
(***************************************************************************)
(* Model of src/main.py: the geocode cache and resolver                    *)
(* (get_geocoded_data), the region assigner (find_geo_id) and the          *)
(* demographic aggregator (process_spatial_data).                          *)
(*                                                                         *)
(* A data frame is a sequence of records (one per row, in row order).      *)
(* Strings that the code formats and parses (str, zfill, int) are          *)
(* sequences of decimal digits.  Missing values: the string "NaN" for      *)
(* text and coordinate cells, the integer NaNId for identifier cells and   *)
(* the integer None for an absent GeoJSON property.                        *)
(***************************************************************************)
EXTENDS Integers, Sequences, FiniteSets, TLC

VARIABLES
    pc,            \* position of the script: idle, geocoding, loaded, assign, census, done, crashed
    cache_file,    \* CACHE_CSV on disk: [exists, rows]
    prior_cache,   \* (address, lat, lon) rows CACHE_CSV held when the run started
    df,            \* the sites data frame of the current run
    pending,       \* rows of df[missing] that apply(do_geocode) has not visited yet
    new_coords,    \* results of do_geocode so far, in row order
    events,        \* calls made on the geocoding objects in this run, in order
    manual_fix,    \* manual_fix_needed.csv as written by this run: [exists, rows]
    ward_geojson,  \* features fetched from WARD_GEOJSON_URL
    precinct_geojson, \* features fetched from PRECINCT_GEOJSON_URL
    census,        \* CENSUS_CSV as read in this run
    p_stats,       \* precinct statistics table
    w_stats,       \* ward statistics table
    key_in,        \* key reconciliation: a ward ID and a precinct-local code
    key_out,       \* key reconciliation: the keys computed on the site and census sides
    geo_in,        \* region assignment: a row and a feature list
    geo_out        \* region assignment: results of successive find_geo_id calls

vars == <<pc, cache_file, prior_cache, df, pending, new_coords, events,
          manual_fix, ward_geojson, precinct_geojson, census, p_stats, w_stats,
          key_in, key_out, geo_in, geo_out>>

pipeline_vars == <<pc, cache_file, prior_cache, df, pending, new_coords,
                   events, manual_fix, ward_geojson, precinct_geojson, census,
                   p_stats, w_stats>>

check_vars == <<key_in, key_out, geo_in, geo_out>>

----------------------------------------------------------------------------
(* Bounds *)

MaxSites == 2      \* rows of the sites table
MaxFeatures == 2   \* features of a boundary file given to find_geo_id
MaxCensus == 2     \* rows of the census table

(* Missing values *)

NaN == "NaN"
NaNId == -2
None == -1

(* Small input domains *)

Addresses == {"1 Elm St", "2 Oak St"}
Neighborhoods == {"Roxbury", NaN}
Owners == {"Owner A"}
Lats == {"42.31", "42.35"}
Lons == {"-71.08"}
FeatureIds == {1, 12}
Populations == {500}

----------------------------------------------------------------------------
(* Sequence helpers *)

Range(s) == {s[i] : i \in 1..Len(s)}

SeqsUpTo(S, n) == UNION {[1..k -> S] : k \in 0..n}

RECURSIVE Flatten(_)
Flatten(ss) == IF ss = <<>> THEN <<>> ELSE Head(ss) \o Flatten(Tail(ss))

\* reset_index / the RangeIndex a merge produces
Reindex(rows) == [i \in 1..Len(rows) |-> [rows[i] EXCEPT !.idx = i]]

----------------------------------------------------------------------------
(* get_geocoded_data *)

SiteRows == [idx : {0}, addr : Addresses, nb : Neighborhoods,
             owner : Owners, lat : {NaN}, lon : {NaN}]

SourceTables == SeqsUpTo(SiteRows, MaxSites)

\* pd.read_csv(SOURCE_CSV).dropna(subset=["Street Address"])
ReadSource(table) == SelectSeq(Reindex(table), LAMBDA r : r.addr # NaN)

\* cache_df[["Street Address", "lat", "lon"]]
CacheCols(rows) == [i \in 1..Len(rows) |->
                      [addr |-> rows[i].addr, lat |-> rows[i].lat, lon |-> rows[i].lon]]

\* pd.merge(df, cache, on="Street Address", how="left"); else-branch: all NaN
MergeCache(rows, cache) ==
    Reindex(Flatten([i \in 1..Len(rows) |->
        LET m == SelectSeq(cache, LAMBDA c : c.addr = rows[i].addr)
        IN  IF m = <<>>
            THEN << [rows[i] EXCEPT !.lat = NaN, !.lon = NaN] >>
            ELSE [k \in 1..Len(m) |->
                    [rows[i] EXCEPT !.lat = m[k].lat, !.lon = m[k].lon]]]))

LoadFrame(table, file) ==
    IF file.exists
    THEN MergeCache(ReadSource(table), CacheCols(file.rows))
    ELSE [i \in 1..Len(ReadSource(table)) |->
            [ReadSource(table)[i] EXCEPT !.lat = NaN, !.lon = NaN]]

\* a resolver that ignores the cached coordinates and looks every row up
MissingIgnoresCache(rows) == rows

\* missing = df["lat"].isna(); df[missing]
Missing(rows) == SelectSeq(rows, LAMBDA r : r.lat = NaN)

\* the free-text query do_geocode builds
Query(row) ==
    IF row.nb # NaN
    THEN <<row.addr, ", ", row.nb, ", Boston, MA">>
    ELSE <<row.addr, ", Boston, MA">>

\* what the external service can answer: a location, no match, or an exception
Outcomes == [kind : {"loc"}, lat : Lats, lon : Lons]
            \cup {[kind |-> "none", lat |-> NaN, lon |-> NaN],
                  [kind |-> "raise", lat |-> NaN, lon |-> NaN]}

\* geolocator.geocode(addr): the bare call
GeolocatorGeocode(ev, row) ==
    Append(ev, [kind |-> "geocode", row |-> row, query |-> Query(row)])

\* RateLimiter(geolocator.geocode, min_delay_seconds=1.2).__call__: wait out
\* the rest of the delay since the previous call, then call
GeocodeService(ev, row) ==
    IF \E i \in 1..Len(ev) : ev[i].kind = "geocode"
    THEN GeolocatorGeocode(Append(ev, [kind |-> "sleep", row |-> row, query |-> Query(row)]), row)
    ELSE GeolocatorGeocode(ev, row)

\* the call do_geocode makes
DoGeocodeCall(ev, row) == GeolocatorGeocode(ev, row)

\* the value do_geocode returns
DoGeocodeResult(o) ==
    IF o.kind = "loc" THEN [lat |-> o.lat, lon |-> o.lon]
    ELSE [lat |-> NaN, lon |-> NaN]

\* df.loc[missing, ["lat", "lon"]] = new_coords.values
RECURSIVE AssignCoords(_, _)
AssignCoords(rows, coords) ==
    IF rows = <<>> THEN <<>>
    ELSE IF Head(rows).lat = NaN
         THEN << [Head(rows) EXCEPT !.lat = Head(coords).lat, !.lon = Head(coords).lon] >>
              \o AssignCoords(Tail(rows), Tail(coords))
         ELSE << Head(rows) >> \o AssignCoords(Tail(rows), coords)

\* DataFrame.drop_duplicates(): keep the first of equal rows
RECURSIVE DropDuplicates(_)
DropDuplicates(rows) ==
    IF rows = <<>> THEN <<>>
    ELSE LET init == DropDuplicates(SubSeq(rows, 1, Len(rows) - 1))
             last == rows[Len(rows)]
         IN  IF last \in Range(init) THEN init ELSE Append(init, last)

\* df[["Street Address","lat","lon"]].dropna(subset=["lat"]).drop_duplicates()
CacheToWrite(rows) ==
    DropDuplicates(SelectSeq(CacheCols(rows), LAMBDA c : c.lat # NaN))

----------------------------------------------------------------------------
(* String formatting and parsing used for the precinct keys *)

\* str(n) for a non-negative integer
RECURSIVE IntToStr(_)
IntToStr(n) == IF n < 10 THEN <<n>> ELSE Append(IntToStr(n \div 10), n % 10)

\* int(s) for a string of decimal digits
RECURSIVE StrToInt(_)
StrToInt(s) ==
    IF Len(s) = 0 THEN 0
    ELSE 10 * StrToInt(SubSeq(s, 1, Len(s) - 1)) + s[Len(s)]

\* str.zfill(width): pad with zeros on the left up to width
RECURSIVE ZFill(_, _)
ZFill(s, width) == IF Len(s) >= width THEN s ELSE ZFill(<<0>> \o s, width)

\* s[:n]
Prefix(s, n) == SubSeq(s, 1, IF Len(s) < n THEN Len(s) ELSE n)

\* the precinct-local code without its zero padding
PrecinctIdStartUnpadded(code) == IntToStr(code)

\* find_geo_id(...).astype(int).astype(str).str.zfill(2)
PrecinctIdStart(code) == ZFill(IntToStr(code), 2)

\* int(f"{int(ward_id)}{precinct_id}")
SitePrecinctID(ward_id, code) == StrToInt(IntToStr(ward_id) \o PrecinctIdStart(code))

\* census[...].astype(str).str.zfill(4).astype(int)
CensusPrecinctID(code) == StrToInt(ZFill(IntToStr(code), 4))

\* census[...].astype(str).str.zfill(4).str[:2].astype(int)
CensusWardID(code) == StrToInt(Prefix(ZFill(IntToStr(code), 4), 2))

----------------------------------------------------------------------------
(* find_geo_id *)

Points == {<<lon, lat>> : lon \in Lons, lat \in Lats}

\* properties of a feature: the identifier under the key, or only other keys
PropsFor(key) == {[k \in {key} |-> id] : id \in FeatureIds}
                 \cup {[k \in {"OBJECTID"} |-> 7]}

FeaturesFor(key) == [geometry : SUBSET Points, properties : PropsFor(key)]

\* dict.get(key)
PropsGet(props, key) == IF key \in DOMAIN props THEN props[key] ELSE None

\* shape(feat["geometry"]).contains(pt)
Contains(feat, pt) == pt \in feat.geometry

\* the for-loop of find_geo_id over the features from position i on
RECURSIVE ScanFeatures(_, _, _, _)
ScanFeatures(features, i, pt, key_name) ==
    IF i > Len(features) THEN NaNId
    ELSE IF Contains(features[i], pt)
            /\ PropsGet(features[i].properties, key_name) # None
         THEN PropsGet(features[i].properties, key_name)
         ELSE ScanFeatures(features, i + 1, pt, key_name)

find_geo_id(row, features, key_name) ==
    IF row.lat = NaN THEN NaNId
    ELSE ScanFeatures(features, 1, <<row.lon, row.lat>>, key_name)

----------------------------------------------------------------------------
(* process_spatial_data *)

Feature(geom, key, id) == [geometry |-> geom, properties |-> [k \in {key} |-> id]]

Unkeyed(geom) == [geometry |-> geom, properties |-> [k \in {"OBJECTID"} |-> 7]]

\* boundary files requests.get(...).json() may deliver: full cover, partial
\* cover, and a file whose first feature lacks the identifier property
BoundaryFiles(key) ==
    { << Feature({<<"-71.08", "42.31">>}, key, 1),
         Feature({<<"-71.08", "42.35">>}, key, 12) >>,
      << Feature({<<"-71.08", "42.31">>}, key, 12) >>,
      << Unkeyed(Points), Feature({<<"-71.08", "42.31">>}, key, 1) >> }

\* df[df["lat"].isna()][["Street Address", "Neighborhood", "Owner/Manager"]], index=True
Unfound(rows) ==
    LET u == SelectSeq(rows, LAMBDA r : r.lat = NaN)
    IN  [i \in 1..Len(u) |->
            [idx |-> u[i].idx, addr |-> u[i].addr, nb |-> u[i].nb, owner |-> u[i].owner]]

\* the frame with its unresolved rows kept
DropNaLatSkipped(rows) == rows

\* df.dropna(subset=["lat"])
DropNaLat(rows) == SelectSeq(rows, LAMBDA r : r.lat # NaN)

\* df.drop_duplicates(subset=["Street Address"]): keep the first row of each address
RECURSIVE DropDuplicateAddresses(_)
DropDuplicateAddresses(rows) ==
    IF rows = <<>> THEN <<>>
    ELSE LET init == DropDuplicateAddresses(SubSeq(rows, 1, Len(rows) - 1))
             last == rows[Len(rows)]
         IN  IF \E r \in Range(init) : r.addr = last.addr THEN init
             ELSE Append(init, last)

\* the Ward_ID column and the precinct-local codes of lines 125-127
WardColumn(rows, wards) ==
    [i \in 1..Len(rows) |-> find_geo_id(rows[i], wards, "Ward1")]

PrecinctColumn(rows, precincts) ==
    [i \in 1..Len(rows) |-> find_geo_id(rows[i], precincts, "Precinct1")]

\* .astype(int) on a column holding NaN and int(ward_id) on NaN both raise
\* (an empty frame has nothing to convert and passes)
AssignRaises(rows, wards, precincts) ==
    \/ NaNId \in Range(PrecinctColumn(rows, precincts))
    \/ NaNId \in Range(WardColumn(rows, wards))

AssignRegions(rows, wards, precincts) ==
    [i \in 1..Len(rows) |->
        [idx |-> rows[i].idx, addr |-> rows[i].addr, nb |-> rows[i].nb,
         owner |-> rows[i].owner, lat |-> rows[i].lat, lon |-> rows[i].lon,
         Ward_ID |-> WardColumn(rows, wards)[i],
         Precinct_ID |-> SitePrecinctID(WardColumn(rows, wards)[i],
                                        PrecinctColumn(rows, precincts)[i])]]

\* df[["Street Address", "lat", "lon", "Ward_ID", "Precinct_ID"]]
AssignedCacheCols(rows) ==
    [i \in 1..Len(rows) |->
        [addr |-> rows[i].addr, lat |-> rows[i].lat, lon |-> rows[i].lon,
         Ward_ID |-> rows[i].Ward_ID, Precinct_ID |-> rows[i].Precinct_ID]]

CensusCodes == {101, 112, 1201}

CensusRows == [code : CensusCodes, total : Populations]

CensusTables == SeqsUpTo(CensusRows, MaxCensus)

\* the census frame with its Precinct_ID and Ward_ID columns (lines 142-159)
ReadCensus(table) ==
    [i \in 1..Len(table) |->
        [code |-> table[i].code, total |-> table[i].total,
         Precinct_ID |-> CensusPrecinctID(table[i].code),
         Ward_ID |-> CensusWardID(table[i].code)]]

\* the keys of a groupby, in sorted order
RECURSIVE SortedKeys(_)
SortedKeys(S) ==
    IF S = {} THEN <<>>
    ELSE LET m == CHOOSE x \in S : \A y \in S : x <= y
         IN  <<m>> \o SortedKeys(S \ {m})

RECURSIVE SumTotal(_)
SumTotal(rows) == IF rows = <<>> THEN 0 ELSE Head(rows).total + SumTotal(Tail(rows))

\* census.groupby(col).agg({"Total Population": "sum"}).reset_index()
GroupSum(rows, col) ==
    LET keys == SortedKeys({rows[i][col] : i \in 1..Len(rows)})
    IN  [k \in 1..Len(keys) |->
            [key |-> keys[k],
             total |-> SumTotal(SelectSeq(rows, LAMBDA r : r[col] = keys[k]))]]

\* df.groupby(col).size().reset_index(name="Site_Count")
GroupSize(rows, col) ==
    LET keys == SortedKeys({rows[i][col] : i \in 1..Len(rows)})
    IN  [k \in 1..Len(keys) |->
            [key |-> keys[k],
             Site_Count |-> Len(SelectSeq(rows, LAMBDA r : r[col] = keys[k]))]]

\* pd.merge(stats, counts, on=key, how="left"): a region without a count gets NaN
MergeCounts(stats, counts) ==
    Flatten([i \in 1..Len(stats) |->
        LET m == SelectSeq(counts, LAMBDA c : c.key = stats[i].key)
        IN  IF m = <<>>
            THEN << [key |-> stats[i].key, total |-> stats[i].total, Site_Count |-> NaNId] >>
            ELSE [k \in 1..Len(m) |->
                    [key |-> stats[i].key, total |-> stats[i].total,
                     Site_Count |-> m[k].Site_Count]]])

\* the merged table with its missing counts left missing
FillNaSkipped(stats) == stats

\* .fillna(0)
FillNa0(stats) ==
    [i \in 1..Len(stats) |->
        IF stats[i].Site_Count = NaNId THEN [stats[i] EXCEPT !.Site_Count = 0]
        ELSE stats[i]]

\* one statistics table: key, Total Population, Site_Count (the White alone
\* sum and the ratios derived from these columns are not modelled)
RegionStats(census_rows, rows, col) ==
    FillNa0(MergeCounts(GroupSum(census_rows, col), GroupSize(rows, col)))

----------------------------------------------------------------------------
(* The script: get_geocoded_data, then process_spatial_data *)

NoFile == [exists |-> FALSE, rows |-> <<>>]

NoKeys == [ward |-> 0, precinct |-> 0]

NoKeyResult == [computed |-> FALSE, site |-> NaNId,
                census_precinct |-> NaNId, census_ward |-> NaNId]

NoGeoInput == [row |-> [lat |-> NaN, lon |-> NaN], features |-> <<>>]

Init ==
    /\ pc = "idle"
    /\ cache_file = NoFile
    /\ prior_cache = <<>>
    /\ df = <<>>
    /\ pending = <<>>
    /\ new_coords = <<>>
    /\ events = <<>>
    /\ manual_fix = NoFile
    /\ ward_geojson = <<>>
    /\ precinct_geojson = <<>>
    /\ census = <<>>
    /\ p_stats = <<>>
    /\ w_stats = <<>>
    /\ key_in = NoKeys
    /\ key_out = NoKeyResult
    /\ geo_in = NoGeoInput
    /\ geo_out = <<>>

\* lines 53-69: read the sites, merge the cache, find the misses
StartRun ==
    /\ pc = "idle"
    /\ \E table \in SourceTables :
          /\ df' = LoadFrame(table, cache_file)
          /\ pending' = Missing(df')
          /\ pc' = IF pending' # <<>> THEN "geocoding" ELSE "loaded"
    /\ prior_cache' = CacheCols(cache_file.rows)
    /\ UNCHANGED <<cache_file, new_coords, events, manual_fix, ward_geojson,
                   precinct_geojson, census, p_stats, w_stats, check_vars>>

\* lines 73-86: do_geocode on the next row of df[missing]
DoGeocode ==
    /\ pc = "geocoding"
    /\ pending # <<>>
    /\ \E o \in Outcomes :
          new_coords' = Append(new_coords, DoGeocodeResult(o))
    /\ events' = DoGeocodeCall(events, Head(pending))
    /\ pending' = Tail(pending)
    /\ UNCHANGED <<pc, cache_file, prior_cache, df, manual_fix, ward_geojson,
                   precinct_geojson, census, p_stats, w_stats, check_vars>>

\* lines 87-92: store the new coordinates, rewrite the cache, return df
FinishGeocode ==
    /\ pc = "geocoding"
    /\ pending = <<>>
    /\ df' = AssignCoords(df, new_coords)
    /\ cache_file' = [exists |-> TRUE, rows |-> CacheToWrite(df')]
    /\ pc' = "loaded"
    /\ UNCHANGED <<prior_cache, pending, new_coords, events, manual_fix,
                   ward_geojson, precinct_geojson, census, p_stats, w_stats,
                   check_vars>>

\* lines 98-122: fetch the boundaries, write the manual-fix file, drop rows
Prepare ==
    /\ pc = "loaded"
    /\ ward_geojson' \in BoundaryFiles("Ward1")
    /\ precinct_geojson' \in BoundaryFiles("Precinct1")
    /\ manual_fix' = IF Unfound(df) # <<>>
                     THEN [exists |-> TRUE, rows |-> Unfound(df)]
                     ELSE NoFile
    /\ df' = DropDuplicateAddresses(DropNaLat(df))
    /\ pc' = "assign"
    /\ UNCHANGED <<cache_file, prior_cache, pending, new_coords, events,
                   census, p_stats, w_stats, check_vars>>

\* lines 125-139: assign wards and precincts, rewrite the cache
Assign ==
    /\ pc = "assign"
    /\ IF AssignRaises(df, ward_geojson, precinct_geojson)
       THEN /\ pc' = "crashed"
            /\ UNCHANGED <<df, cache_file>>
       ELSE /\ df' = AssignRegions(df, ward_geojson, precinct_geojson)
            /\ cache_file' = [exists |-> TRUE, rows |-> AssignedCacheCols(df')]
            /\ pc' = "census"
    /\ UNCHANGED <<prior_cache, pending, new_coords, events, manual_fix,
                   ward_geojson, precinct_geojson, census, p_stats, w_stats,
                   check_vars>>

\* lines 142-233: read the census, build the precinct and ward statistics
Aggregate ==
    /\ pc = "census"
    /\ \E table \in CensusTables : census' = ReadCensus(table)
    /\ p_stats' = RegionStats(census', df, "Precinct_ID")
    /\ w_stats' = RegionStats(census', df, "Ward_ID")
    /\ pc' = "done"
    /\ UNCHANGED <<cache_file, prior_cache, df, pending, new_coords, events,
                   manual_fix, ward_geojson, precinct_geojson, check_vars>>

\* the process ends (normally or on the uncaught exception); only the files stay
EndRun ==
    /\ pc \in {"done", "crashed"}
    /\ pc' = "idle"
    /\ prior_cache' = <<>>
    /\ df' = <<>>
    /\ pending' = <<>>
    /\ new_coords' = <<>>
    /\ events' = <<>>
    /\ manual_fix' = NoFile
    /\ ward_geojson' = <<>>
    /\ precinct_geojson' = <<>>
    /\ census' = <<>>
    /\ p_stats' = <<>>
    /\ w_stats' = <<>>
    /\ UNCHANGED <<cache_file, check_vars>>

Next == StartRun \/ DoGeocode \/ FinishGeocode \/ Prepare \/ Assign \/ Aggregate \/ EndRun

Spec == Init /\ [][Next]_vars

----------------------------------------------------------------------------
(* Key reconciliation on its own: site side against census side *)

\* ward identifiers of WARD_TO_NEIGHBORHOOD and two-digit precinct-local codes
WardIds == 1..22

PrecinctCodes == 1..99

\* the census cell for ward w, precinct p ("0503"), as read_csv parses it
CompositeCode(w, p) == StrToInt(ZFill(IntToStr(w), 2) \o ZFill(IntToStr(p), 2))

InitKey ==
    /\ pc = "idle"
    /\ cache_file = NoFile
    /\ prior_cache = <<>>
    /\ df = <<>>
    /\ pending = <<>>
    /\ new_coords = <<>>
    /\ events = <<>>
    /\ manual_fix = NoFile
    /\ ward_geojson = <<>>
    /\ precinct_geojson = <<>>
    /\ census = <<>>
    /\ p_stats = <<>>
    /\ w_stats = <<>>
    /\ key_in \in [ward : WardIds, precinct : PrecinctCodes]
    /\ key_out = NoKeyResult
    /\ geo_in = NoGeoInput
    /\ geo_out = <<>>

ComputeKeys ==
    /\ ~key_out.computed
    /\ key_out' =
         [computed |-> TRUE,
          site |-> SitePrecinctID(key_in.ward, key_in.precinct),
          census_precinct |->
              CensusPrecinctID(CompositeCode(key_in.ward, key_in.precinct)),
          census_ward |->
              CensusWardID(CompositeCode(key_in.ward, key_in.precinct))]
    /\ UNCHANGED <<pipeline_vars, key_in, geo_in, geo_out>>

NextKey == ComputeKeys

SpecKey == InitKey /\ [][NextKey]_vars

----------------------------------------------------------------------------
(* find_geo_id on its own: any row against any short feature list *)

GeoRows == [lat : Lats, lon : Lons] \cup {[lat |-> NaN, lon |-> NaN]}

MaxCalls == 2   \* repeated calls with the same arguments

InitGeo ==
    /\ pc = "idle"
    /\ cache_file = NoFile
    /\ prior_cache = <<>>
    /\ df = <<>>
    /\ pending = <<>>
    /\ new_coords = <<>>
    /\ events = <<>>
    /\ manual_fix = NoFile
    /\ ward_geojson = <<>>
    /\ precinct_geojson = <<>>
    /\ census = <<>>
    /\ p_stats = <<>>
    /\ w_stats = <<>>
    /\ key_in = NoKeys
    /\ key_out = NoKeyResult
    /\ geo_in \in [row : GeoRows,
                   features : SeqsUpTo(FeaturesFor("Ward1"), MaxFeatures)]
    /\ geo_out = <<>>

CallFindGeoId ==
    /\ Len(geo_out) < MaxCalls
    /\ geo_out' = Append(geo_out, find_geo_id(geo_in.row, geo_in.features, "Ward1"))
    /\ UNCHANGED <<pipeline_vars, key_in, key_out, geo_in>>

NextGeo == CallFindGeoId

SpecGeo == InitGeo /\ [][NextGeo]_vars

----------------------------------------------------------------------------
(* Claims about the precinct keys (SpecKey) *)

\* C6: for every ward ID in 1..22 and precinct-local code in 1..99 the
\* Precinct_ID computed on the site side equals the Precinct_ID computed on
\* the census side, and the census Ward_ID equals the ward ID.
C6_KeysAlign ==
    key_out.computed =>
        /\ key_out.site = key_out.census_precinct
        /\ key_out.census_ward = key_in.ward
        /\ key_out.site = 100 * key_in.ward + key_in.precinct

C6_Witness ==
    /\ key_out.computed
    /\ key_in = [ward |-> 5, precinct |-> 3]
    /\ key_out.site = 503

----------------------------------------------------------------------------
(* Claims about find_geo_id (SpecGeo) *)

GeoPoint == <<geo_in.row.lon, geo_in.row.lat>>

ContainingFeatures ==
    {i \in 1..Len(geo_in.features) : Contains(geo_in.features[i], GeoPoint)}

FirstContaining == CHOOSE i \in ContainingFeatures : \A j \in ContainingFeatures : i <= j

LacksKey(feat) == PropsGet(feat.properties, "Ward1") = None

\* C9: when a feature that contains the point lacks the identifier property,
\* find_geo_id does not skip it and return another polygon's identifier or
\* unresolved.
C9_NoSilentSkip ==
    \A k \in 1..Len(geo_out) :
        ~ /\ geo_in.row.lat # NaN
          /\ ContainingFeatures # {}
          /\ LacksKey(geo_in.features[FirstContaining])
          /\ \/ geo_out[k] = NaNId
             \/ \E j \in ContainingFeatures :
                   /\ j > FirstContaining
                   /\ geo_out[k] = PropsGet(geo_in.features[j].properties, "Ward1")

\* C10: find_geo_id returns the identifier of the first feature in list order
\* whose polygon contains the coordinate, returns unresolved exactly when the
\* coordinate is absent or no polygon contains it, and repeated calls agree.
C10_FirstMatch ==
    \A k \in 1..Len(geo_out) :
        /\ geo_out[k] = geo_out[1]
        /\ IF geo_in.row.lat = NaN \/ ContainingFeatures = {}
           THEN geo_out[k] = NaNId
           ELSE /\ geo_out[k] # NaNId
                /\ geo_out[k] =
                     PropsGet(geo_in.features[FirstContaining].properties, "Ward1")

----------------------------------------------------------------------------
(* Claims about the pipeline (Spec) *)

\* the external lookups of this run, in order; new_coords[i] answers LookupEvents[i]
LookupEvents == SelectSeq(events, LAMBDA e : e.kind = "geocode")

PriorAddresses == {prior_cache[i].addr : i \in 1..Len(prior_cache)}

\* the (address, lat, lon) entries this run resolved
NewlyResolved ==
    {[addr |-> LookupEvents[i].row.addr, lat |-> new_coords[i].lat,
      lon |-> new_coords[i].lon] :
        i \in {j \in 1..Len(new_coords) : new_coords[j].lat # NaN}}

\* the rows whose lookup failed in this run
FailedRows ==
    {LookupEvents[i].row : i \in {j \in 1..Len(new_coords) : new_coords[j].lat = NaN}}

FailedIdx == {r.idx : r \in FailedRows}

CacheTriples == Range(CacheCols(cache_file.rows))

\* C1: once get_geocoded_data has processed the misses, and still after
\* process_spatial_data has rewritten the file, the cache file holds the union
\* of the prior entries and the newly resolved ones, one row per address, and
\* no row without a coordinate.
C1_CacheIsUnion ==
    (\/ pc = "loaded" /\ LookupEvents # <<>>
     \/ pc \in {"census", "done"})
    => /\ CacheTriples = Range(prior_cache) \cup NewlyResolved
       /\ \A i, j \in 1..Len(cache_file.rows) :
             cache_file.rows[i].addr = cache_file.rows[j].addr => i = j
       /\ \A i \in 1..Len(cache_file.rows) : cache_file.rows[i].lat # NaN

\* C2: a site whose address is in the cache at the start of the run gets a
\* cached coordinate of that address and no external lookup; lookups are
\* issued only for addresses that are not in the cache.
C2_CacheShortCircuits ==
    pc \in {"geocoding", "loaded"} =>
        /\ \A i \in 1..Len(df) :
              df[i].addr \in PriorAddresses =>
                  \E c \in Range(prior_cache) :
                      /\ c.addr = df[i].addr
                      /\ c.lat = df[i].lat
                      /\ c.lon = df[i].lon
        /\ \A i \in 1..Len(LookupEvents) :
              LookupEvents[i].row.addr \notin PriorAddresses

C2_Witness ==
    /\ pc = "loaded"
    /\ LookupEvents # <<>>
    /\ \E i \in 1..Len(df) : df[i].addr \in PriorAddresses /\ df[i].lat # NaN

\* a row of the frame lies inside no polygon of the boundary file
InNoPolygon(row, features) ==
    /\ row.lat # NaN
    /\ \A i \in 1..Len(features) : ~Contains(features[i], <<row.lon, row.lat>>)

\* C3: a resolved site that lies inside no ward polygon or no precinct polygon
\* does not make process_spatial_data raise.
C3_RegionMissNotFatal ==
    ~ /\ pc = "crashed"
      /\ \E i \in 1..Len(df) :
            \/ InNoPolygon(df[i], ward_geojson)
            \/ InNoPolygon(df[i], precinct_geojson)

\* C4: get_geocoded_data issues at most one external lookup per address in a
\* run, however many rows carry that address.
C4_OneLookupPerAddress ==
    \A i, j \in 1..Len(LookupEvents) :
        LookupEvents[i].row.addr = LookupEvents[j].row.addr => i = j

\* C5: every external lookup after the first of a run is directly preceded by
\* the rate limiter's delay.
C5_LookupsThrottled ==
    \A i \in 1..Len(events) :
        (events[i].kind = "geocode" /\ \E j \in 1..(i - 1) : events[j].kind = "geocode")
        => events[i - 1].kind = "sleep"

\* the rows of a statistics table for one region
StatRows(stats, k) == {i \in 1..Len(stats) : stats[i].key = k}

\* the rows of the frame assigned to one region
AssignedTo(col, k) == {i \in 1..Len(df) : df[i][col] = k}

RegionsComplete(stats, col) ==
    /\ \A i \in 1..Len(census) : Cardinality(StatRows(stats, census[i][col])) = 1
    /\ \A i \in 1..Len(stats) :
          /\ \E j \in 1..Len(census) : census[j][col] = stats[i].key
          /\ stats[i].Site_Count = Cardinality(AssignedTo(col, stats[i].key))
          /\ AssignedTo(col, stats[i].key) = {} => stats[i].Site_Count = 0

\* C7: every ward and every precinct with a census row appears exactly once in
\* its statistics table, with Site_Count 0 when no site is assigned to it.
C7_LeftJoinComplete ==
    pc = "done" =>
        /\ RegionsComplete(p_stats, "Precinct_ID")
        /\ RegionsComplete(w_stats, "Ward_ID")

C7_Witness ==
    /\ pc = "done"
    /\ \E i \in 1..Len(w_stats) : w_stats[i].Site_Count = 0
    /\ \E i \in 1..Len(p_stats) : p_stats[i].Site_Count = 0
    /\ \E i \in 1..Len(p_stats) : p_stats[i].Site_Count > 0

ReportRow(r) == [idx |-> r.idx, addr |-> r.addr, nb |-> r.nb, owner |-> r.owner]

CountsExcludeFailed(stats, col) ==
    \A i \in 1..Len(stats) :
        stats[i].Site_Count =
            Cardinality({j \in AssignedTo(col, stats[i].key) : df[j].idx \notin FailedIdx})

\* C8: a site whose lookup failed is unresolved when get_geocoded_data
\* returns, is listed in the manual-correction report with its address,
\* neighborhood and owner, and is counted in no ward or precinct.
C8_FailedLookupReported ==
    /\ pc = "loaded" =>
          \A r \in FailedRows : \E i \in 1..Len(df) : df[i].idx = r.idx /\ df[i].lat = NaN
    /\ pc \in {"assign", "census", "done", "crashed"} =>
          \A r \in FailedRows :
              /\ manual_fix.exists
              /\ ReportRow(r) \in Range(manual_fix.rows)
              /\ \A i \in 1..Len(df) : df[i].idx # r.idx
    /\ pc = "done" =>
          /\ CountsExcludeFailed(p_stats, "Precinct_ID")
          /\ CountsExcludeFailed(w_stats, "Ward_ID")

C8_Witness ==
    /\ pc = "done"
    /\ FailedRows # {}
    /\ \E i \in 1..Len(w_stats) : w_stats[i].Site_Count > 0

====
